---- MODULE Spec2Model ----
(***************************************************************************)
(* Model of markers/uncollect.py: the 'uncollect' / 'uncollectif' markers  *)
(* and the pytest_collection_modifyitems hook that drops marked items.     *)
(*                                                                         *)
(* Python values are modelled as string tokens ("True", "False", "None",  *)
(* "0", fixture values, ...); Truthy gives their truth value as bool()     *)
(* does.  A dict is a function whose DOMAIN is its key set.                *)
(***************************************************************************)
EXTENDS Integers, Sequences, FiniteSets, TLC

\* ------------------------------------------------------------------ bounds
\* Longest collected item list.
MaxItems == 2

\* ------------------------------------------------------------ python values
EmptyDict == [k \in {} |-> "None"]

\* bool(v)
Truthy(v) == v \notin {"False", "None", "0", ""}

\* not v
Not(v) == IF Truthy(v) THEN "False" ELSE "True"

\* d.get(key, default)
DictGet(d, key, default) == IF key \in DOMAIN d THEN d[key] ELSE default

\* d.update(e)
DictUpdate(d, e) == e @@ d

Range(s) == {s[i] : i \in 1..Len(s)}

\* ------------------------------------------------- payloads of uncollectif
\* First positional argument of the uncollectif marker.
\*   kind "function": a plain function / lambda with declared parameters
\*   kind "literal" : a non-callable value (a boolean written in place)
\*   kind "partial" : a callable object that is not a plain function
Payload(kind, value, argnames, body) ==
    [kind |-> kind, value |-> value, argnames |-> argnames, body |-> body]

LitTrue  == Payload("literal", "True", <<>>, "none")
LitFalse == Payload("literal", "False", <<>>, "none")
Partial  == Payload("partial", "partial", <<>>, "none")
\* lambda: False
FnConst  == Payload("function", "function", <<>>, "const_false")
\* lambda provider_type: provider_type != 'virtualcenter'
FnProv   == Payload("function", "function", <<"provider_type">>, "pt_ne_vc")
\* lambda foo: foo
FnFoo    == Payload("function", "function", <<"foo">>, "foo")
\* lambda appliance: appliance.version < '5.3'
FnAppl   == Payload("function", "function", <<"appliance">>, "old_appliance")
\* lambda appliance, foo: foo
FnApplFoo == Payload("function", "function", <<"appliance", "foo">>, "second")

\* marker.args[0](*args)
Call(fn, args) ==
    CASE fn.body = "const_false"   -> "False"
      [] fn.body = "pt_ne_vc"      -> IF args[1] # "virtualcenter" THEN "True" ELSE "False"
      [] fn.body = "foo"           -> args[1]
      [] fn.body = "old_appliance" -> IF args[1] = "5.2" THEN "True" ELSE "False"
      [] fn.body = "second"        -> args[2]
      [] OTHER                     -> "None"

\* ------------------------------------------------------------------ markers
\* What item.get_marker(name) returns: "present" is its truth value (None when
\* the item has no such marker), "decorator" tells a MarkDecorator from the
\* MarkInfo that get_marker hands out.
NoMarker == [present |-> FALSE, decorator |-> FALSE, args |-> <<>>, kwargs |-> EmptyDict]
Marker(args, kwargs) ==
    [present |-> TRUE, decorator |-> FALSE, args |-> args, kwargs |-> kwargs]

\* ---------------------------------------------------------------- the items
\* Fixture bindings of an item (callspec.params) and the fixture names the
\* test function requests (item._request.funcargnames).
Env(fixtures, funcargnames) == [fixtures |-> fixtures, funcargnames |-> funcargnames]

EnvNone  == Env(EmptyDict, {})
EnvVC    == Env([k \in {"provider_type"} |-> "virtualcenter"], {"provider_type"})
EnvVMW   == Env([k \in {"provider_type"} |-> "vmware"], {"provider_type", "foo"})
EnvFoo0  == Env([k \in {"foo"} |-> "0"], {"foo"})

Shape(unc, cond, env) ==
    [uncollect |-> unc, uncollectif |-> cond,
     fixtures |-> env.fixtures, funcargnames |-> env.funcargnames]

Flaky == [k \in {"reason"} |-> "flaky on 5.2"]
Broken == [k \in {"reason"} |-> "broken"]

ItemShapes ==
    { \* no marker at all
      Shape(NoMarker, NoMarker, EnvVC),
      \* uncollect, alone or together with an uncollectif marker
      Shape(Marker(<<>>, EmptyDict), NoMarker, EnvVC),
      Shape(Marker(<<>>, Broken), Marker(<<FnFoo>>, Flaky), EnvVC),
      Shape(Marker(<<>>, EmptyDict), Marker(<<LitFalse>>, Flaky), EnvVC),
      \* uncollectif with an argument that is not a plain function
      Shape(NoMarker, Marker(<<LitTrue>>, Flaky), EnvVC),
      Shape(NoMarker, Marker(<<LitFalse>>, EmptyDict), EnvVC),
      Shape(NoMarker, Marker(<<Partial>>, EmptyDict), EnvNone),
      \* uncollectif with a plain function
      Shape(NoMarker, Marker(<<FnConst>>, EmptyDict), EnvNone),
      Shape(NoMarker, Marker(<<FnProv>>, EmptyDict), EnvVC),
      Shape(NoMarker, Marker(<<FnProv>>, EmptyDict), EnvVMW),
      Shape(NoMarker, Marker(<<FnProv>>, Flaky), EnvVMW),
      Shape(NoMarker, Marker(<<FnFoo>>, EmptyDict), EnvNone),
      Shape(NoMarker, Marker(<<FnFoo>>, EmptyDict), EnvVC),
      Shape(NoMarker, Marker(<<FnFoo>>, EmptyDict), EnvVMW),
      Shape(NoMarker, Marker(<<FnFoo>>, EmptyDict), EnvFoo0),
      Shape(NoMarker, Marker(<<FnAppl>>, Flaky), EnvNone),
      Shape(NoMarker, Marker(<<FnApplFoo>>, EmptyDict), EnvVMW) }

\* item.name
Name(id) == <<"test_", id>>

MkItem(id, shape) ==
    [id |-> id, name |-> Name(id), uncollect |-> shape.uncollect,
     uncollectif |-> shape.uncollectif, fixtures |-> shape.fixtures,
     funcargnames |-> shape.funcargnames]

\* The item lists a collection can hand to the hook.
ItemLists ==
    UNION {{[i \in 1..n |-> MkItem(i, f[i])] : f \in [1..n -> ItemShapes]} : n \in 0..MaxItems}

\* config.pluginmanager.getplugin('appliance-holder'): "None" when the plugin
\* is not registered, else the held appliance.
Holders == {"None", "5.2", "5.9"}

\* Statistics other filters have already recorded in store.uncollection_stats.
InitialStats == [k \in {"meta_filter"} |-> 3]

VARIABLES
    items,          \* the list the hook receives and replaces in place
    collected,      \* the list as it was when the current pass started
    new_items,      \* line 124
    len_collected,  \* line 122
    idx,            \* position of the for loop of line 128
    f,              \* content of uncollected.log
    stats,          \* store.uncollection_stats
    pc,             \* "idle", "loop", "done" or "raised"
    error,          \* the exception that left the hook, if any
    evals,          \* what evaluating each item of this pass did
    holder,         \* the 'appliance-holder' plugin
    logger_raises,  \* whether logger.debug / logger.info raise
    rerun           \* whether the hook has been run again on its own output

vars == <<items, collected, new_items, len_collected, idx, f, stats, pc, error,
          evals, holder, logger_raises, rerun>>

\* ------------------------------------------------------------------- errors
NoError == [kind |-> "none", item |-> <<>>, names |-> {}]
Error(kind, item, names) == [kind |-> kind, item |-> item, names |-> names]

\* ----------------------------------------------------------------- the code
get_marker(item, name) ==
    IF name = "uncollect" THEN item.uncollect ELSE item.uncollectif

\* list(marker): the marks a MarkInfo holds, first applied first.
MarkList(marker) == <<[args |-> marker.args, kwargs |-> marker.kwargs]>>

get_uncollect_function(marker_or_markdecorator) ==
    IF marker_or_markdecorator.decorator
    THEN marker_or_markdecorator.args[1]
    ELSE MarkList(marker_or_markdecorator)[1].args[1]

\* inspect.getargspec(func): TypeError unless func is a plain function.
getargspec(func) ==
    IF func.kind = "function"
    THEN [typeerror |-> FALSE, args |-> func.argnames]
    ELSE [typeerror |-> TRUE, args |-> <<>>]

\* cfme.utils.pytest_shortcuts.extract_fixtures_values: the item's bindings.
extract_fixtures_values(item) == item.fixtures

\* Lines 89-94.
global_vars(plugin) ==
    IF plugin # "None" THEN [k \in {"appliance"} |-> plugin] ELSE EmptyDict

\* Variant of line 87: return bool(marker.args[0]), the negation left out.
FallbackResult_NotNegated(marker) ==
    IF Truthy(marker.args[1].value) THEN "True" ELSE "False"

\* Line 87.
FallbackResult(marker) == Not(IF Truthy(marker.args[1].value) THEN "True" ELSE "False")

\* Variant of line 100: the early return left out.
AlreadyUncollected_Never(arg_names, values) == FALSE

\* Line 100.
AlreadyUncollected(arg_names, values) == arg_names # <<>> /\ DOMAIN values = {}

\* Variant of lines 103-111: the first diagnostic left out.
MissingArgError_AlwaysNotReady(item, arg_names) ==
    [kind |-> "not_ready", item |-> item.name, names |-> {}]

\* Lines 103-111; "names" are the parameter names the message lists.
MissingArgError(item, arg_names) ==
    LET missing_argnames == Range(arg_names) \ item.funcargnames
        func_name == item.name
    IN  IF missing_argnames # {}
        THEN Error("not_in_prototype", func_name, missing_argnames)
        ELSE Error("not_ready", func_name, {})

\* The exception of a failing logger call.
LoggerError(item) == Error("logger", item.name, {})

\* What a call of uncollectif did: its return value or the exception it
\* raised, whether it read the fixture values and whether it called the
\* marker's argument.
Return(ret, consulted, invoked) ==
    [raised |-> FALSE, ret |-> ret, err |-> NoError,
     consulted |-> consulted, invoked |-> invoked]
Raise(err, consulted, invoked) ==
    [raised |-> TRUE, ret |-> "None", err |-> err,
     consulted |-> consulted, invoked |-> invoked]

uncollectif(item, plugin, log_fails) ==
    LET marker == get_marker(item, "uncollectif") IN
    IF ~marker.present THEN Return("True", FALSE, FALSE)
    ELSE
    LET spec == getargspec(get_uncollect_function(marker)) IN
    IF spec.typeerror
    THEN IF log_fails THEN Raise(LoggerError(item), FALSE, FALSE)
         ELSE Return(FallbackResult(marker), FALSE, FALSE)
    ELSE
    LET arg_names == spec.args IN
    IF plugin = "None" /\ log_fails THEN Raise(LoggerError(item), FALSE, FALSE)
    ELSE
    LET values == DictUpdate(extract_fixtures_values(item), global_vars(plugin)) IN
    IF AlreadyUncollected(arg_names, values) THEN Return("None", TRUE, FALSE)
    ELSE IF \E i \in 1..Len(arg_names) : arg_names[i] \notin DOMAIN values
    THEN Raise(MissingArgError(item, arg_names), TRUE, FALSE)
    ELSE
    LET args == [i \in 1..Len(arg_names) |-> values[arg_names[i]]]
        retval == Call(marker.args[1], args)
    IN  IF Truthy(retval) /\ log_fails THEN Raise(LoggerError(item), TRUE, TRUE)
        ELSE Return(Not(retval), TRUE, TRUE)

\* Variant of line 130: not uncollectif(item) or item.get_marker('uncollect').
Evaluate_NoShortCircuit(item, plugin, log_fails) ==
    [called |-> TRUE, id |-> item.id, out |-> uncollectif(item, plugin, log_fails)]

\* Line 130: item.get_marker('uncollect') or not uncollectif(item).  "called"
\* tells whether the right operand was evaluated.
Evaluate(item, plugin, log_fails) ==
    IF get_marker(item, "uncollect").present
    THEN [called |-> FALSE, id |-> item.id, out |-> Return("None", FALSE, FALSE)]
    ELSE [called |-> TRUE, id |-> item.id, out |-> uncollectif(item, plugin, log_fails)]

\* Variant of line 130: uncollectif(item) is False.
Uncollected_OnlyFalse(e) == ~e.called \/ e.out.ret = "False"

Uncollected(e) == ~e.called \/ ~Truthy(e.out.ret)

\* Variant of lines 133-134: the 'uncollectif' marker given priority.
Reason_ConditionFirst(item) ==
    LET cond == get_marker(item, "uncollectif")
        marker == IF cond.present THEN cond ELSE get_marker(item, "uncollect")
    IN  IF marker.present THEN DictGet(marker.kwargs, "reason", "No reason given")
        ELSE "None"

\* Lines 133-138.
Reason(item) ==
    LET uncollect == get_marker(item, "uncollect")
        marker == IF uncollect.present THEN uncollect ELSE get_marker(item, "uncollectif")
    IN  IF marker.present THEN DictGet(marker.kwargs, "reason", "No reason given")
        ELSE "None"

\* Line 139: "{} - {}\n".format(item.name, reason)
Format(name, reason) == <<name, " - ", reason>>

\* Variant of line 141: new_items.insert(0, item).
Kept_Prepend(kept, item) == <<item>> \o kept

\* Line 141.
Kept(kept, item) == Append(kept, item)

\* Variant of line 146: the length of the filtered list is recorded.
FilteredCount_Filtered(n_collected, n_filtered) == n_filtered

\* Line 146.
FilteredCount(n_collected, n_filtered) == n_collected - n_filtered

\* Line 147.
SetStat(d, key, value) == [k \in DOMAIN d \cup {key} |-> IF k = key THEN value ELSE d[k]]

\* ------------------------------------------------------------------ actions
\* Lines 121-127: the hook starts, uncollected.log is opened for writing.
OpenLog ==
    /\ pc = "idle"
    /\ pc' = "loop"
    /\ len_collected' = Len(items)
    /\ new_items' = <<>>
    /\ f' = <<>>
    /\ idx' = 1
    /\ evals' = <<>>
    /\ collected' = items
    /\ UNCHANGED <<items, stats, error, holder, logger_raises, rerun>>

\* Lines 130-139: the item is dropped and a line is written.
WriteUncollected ==
    /\ pc = "loop"
    /\ idx <= Len(items)
    /\ LET item == items[idx]
           e == Evaluate(item, holder, logger_raises)
       IN  /\ ~e.out.raised
           /\ Uncollected(e)
           /\ f' = Append(f, Format(item.name, Reason(item)))
           /\ evals' = Append(evals, e)
    /\ idx' = idx + 1
    /\ UNCHANGED <<items, collected, new_items, len_collected, stats, pc, error,
                   holder, logger_raises, rerun>>

\* Lines 130, 140-141: the item is kept.
AppendItem ==
    /\ pc = "loop"
    /\ idx <= Len(items)
    /\ LET item == items[idx]
           e == Evaluate(item, holder, logger_raises)
       IN  /\ ~e.out.raised
           /\ ~Uncollected(e)
           /\ new_items' = Kept(new_items, item)
           /\ evals' = Append(evals, e)
    /\ idx' = idx + 1
    /\ UNCHANGED <<items, collected, len_collected, f, stats, pc, error,
                   holder, logger_raises, rerun>>

\* uncollectif raises: the exception leaves the hook, the with block closes
\* the file, nothing after the loop runs.
RaiseError ==
    /\ pc = "loop"
    /\ idx <= Len(items)
    /\ LET item == items[idx]
           e == Evaluate(item, holder, logger_raises)
       IN  /\ e.out.raised
           /\ error' = e.out.err
           /\ evals' = Append(evals, e)
    /\ pc' = "raised"
    /\ UNCHANGED <<items, collected, new_items, len_collected, idx, f, stats,
                   holder, logger_raises, rerun>>

\* Variant of line 143: items = new_items, which rebinds the local name and
\* leaves the caller's list as it was.
ReplaceItems_Rebinds ==
    /\ pc = "loop"
    /\ idx > Len(items)
    /\ items' = items
    /\ stats' = SetStat(stats, "uncollectif", FilteredCount(len_collected, Len(new_items)))
    /\ pc' = "done"
    /\ UNCHANGED <<collected, new_items, len_collected, idx, f, error, evals,
                   holder, logger_raises, rerun>>

\* Lines 143-147.
ReplaceItems ==
    /\ pc = "loop"
    /\ idx > Len(items)
    /\ items' = new_items
    /\ stats' = SetStat(stats, "uncollectif", FilteredCount(len_collected, Len(items')))
    /\ pc' = "done"
    /\ UNCHANGED <<collected, new_items, len_collected, idx, f, error, evals,
                   holder, logger_raises, rerun>>

\* The hook is invoked again, on the list it produced.
Rerun ==
    /\ pc = "done"
    /\ ~rerun
    /\ rerun' = TRUE
    /\ pc' = "idle"
    /\ UNCHANGED <<items, collected, new_items, len_collected, idx, f, stats, error,
                   evals, holder, logger_raises>>

InitCommon ==
    /\ items \in ItemLists
    /\ collected = items
    /\ new_items = <<>>
    /\ len_collected = 0
    /\ idx = 1
    /\ f = <<>>
    /\ stats = InitialStats
    /\ pc = "idle"
    /\ error = NoError
    /\ evals = <<>>
    /\ holder \in Holders
    /\ rerun = FALSE

\* The logger works.
Init == InitCommon /\ logger_raises = FALSE

\* The logger may be broken.
InitLoggerFault == InitCommon /\ logger_raises \in BOOLEAN

Next == OpenLog \/ WriteUncollected \/ AppendItem \/ RaiseError \/ ReplaceItems \/ Rerun

Spec == Init /\ [][Next]_vars

SpecLoggerFault == InitLoggerFault /\ [][Next]_vars

\* ------------------------------------------------- vocabulary of the claims
\* Stated from the items and the run configuration alone, without uncollectif.
HasUncollect(item) == item.uncollect.present
HasCondition(item) == item.uncollectif.present
Argument(item) == item.uncollectif.args[1]
PlainFunction(item) == HasCondition(item) /\ Argument(item).kind = "function"
Declared(item) == Range(Argument(item).argnames)

\* Names of the available values: fixture bindings plus the context value.
Available(item) ==
    DOMAIN item.fixtures \cup (IF holder = "None" THEN {} ELSE {"appliance"})
ValueOf(item, n) ==
    IF n = "appliance" /\ holder # "None" THEN holder ELSE item.fixtures[n]

Resolvable(item) == PlainFunction(item) /\ Declared(item) \subseteq Available(item)
BoundArgs(item) ==
    [i \in 1..Len(Argument(item).argnames) |-> ValueOf(item, Argument(item).argnames[i])]

\* The predicate (or the literal standing in its place) says "exclude".
ConditionTruthy(item) ==
    /\ HasCondition(item)
    /\ IF PlainFunction(item)
       THEN Resolvable(item) /\ Call(Argument(item), BoundArgs(item)) \notin {"False", "0", "None"}
       ELSE Argument(item).value # "False"

\* Parameters declared, nothing at all available.
EmptyContext(item) ==
    PlainFunction(item) /\ Declared(item) # {} /\ Available(item) = {}

\* A declared parameter is missing although some value is available.
Unresolvable(item) ==
    PlainFunction(item) /\ ~Resolvable(item) /\ Available(item) # {}

Logged(item) == \E j \in 1..Len(f) : f[j][1] = item.name
InResult(item) == \E k \in 1..Len(items) : items[k].id = item.id
Processed == 1..Len(evals)

\* ---------------------------------------------------------------- claim C1
\* C1 as stated: after a completed pass an item of the input is absent from
\* the result if and only if it carries 'uncollect' or its 'uncollectif'
\* condition is truthy.
C1_ExcludedIffMarkedOrTruthy ==
    pc = "done" =>
        \A i \in 1..Len(collected) :
            ~InResult(collected[i]) <=>
                (HasUncollect(collected[i]) \/ ConditionTruthy(collected[i]))

\* C1 amended: after a completed pass an item of the input is absent from the
\* result if and only if it carries 'uncollect', or its 'uncollectif'
\* condition is truthy, or its predicate declares parameters while no value at
\* all is available; an item with neither marker, or with a falsy condition
\* and no 'uncollect', is kept.
C1_ExcludedIffMarkedTruthyOrEmptyContext ==
    pc = "done" =>
        \A i \in 1..Len(collected) :
            LET item == collected[i] IN
            /\ ~InResult(item) <=>
                  (HasUncollect(item) \/ ConditionTruthy(item) \/ EmptyContext(item))
            /\ (~HasUncollect(item) /\ ~HasCondition(item)) => InResult(item)

C1_Witness ==
    /\ pc = "done"
    /\ \E i \in 1..Len(collected) :
          /\ EmptyContext(collected[i]) /\ ~HasUncollect(collected[i])
          /\ ~InResult(collected[i])
    /\ \E i \in 1..Len(collected) :
          /\ Resolvable(collected[i]) /\ ~ConditionTruthy(collected[i])
          /\ InResult(collected[i])

\* ---------------------------------------------------------------- claim C2
\* C2: an item carrying 'uncollect' is dropped and logged without uncollectif
\* being evaluated, so nothing its 'uncollectif' marker holds can raise.
C2_UncollectAlwaysExcluded ==
    \A i \in Processed :
        LET item == collected[i] IN
        HasUncollect(item) =>
            /\ ~evals[i].out.raised
            /\ ~evals[i].called
            /\ Logged(item)
            /\ \A k \in 1..Len(new_items) : new_items[k].id # item.id
            /\ pc = "done" => ~InResult(item)

C2_Witness ==
    /\ pc = "done"
    /\ \E i \in 1..Len(collected) :
          /\ HasUncollect(collected[i])
          /\ Unresolvable(collected[i])

\* ---------------------------------------------------------------- claim C3
\* C3: after a completed pass the list is the input with the logged items
\* taken out: same order, nothing added, nothing twice.
C3_ResultIsSubsequence ==
    pc = "done" =>
        /\ items = SelectSeq(collected, LAMBDA item : ~Logged(item))
        /\ \A k, l \in 1..Len(items) : items[k].id = items[l].id => k = l

C3_Witness ==
    /\ pc = "done"
    /\ Len(collected) >= 2
    /\ ~InResult(collected[1])
    /\ Len(items) >= 1

\* ---------------------------------------------------------------- claim C4
\* C4: after a completed pass stats['uncollectif'] is the number of lines of
\* uncollected.log, which is input length minus output length; the other keys
\* of the statistics never change.
C4_CountEqualsLogLines ==
    /\ \A k \in DOMAIN InitialStats : k \in DOMAIN stats /\ stats[k] = InitialStats[k]
    /\ DOMAIN stats \subseteq DOMAIN InitialStats \cup {"uncollectif"}
    /\ pc = "done" =>
          /\ "uncollectif" \in DOMAIN stats
          /\ stats["uncollectif"] = Len(f)
          /\ Len(f) = Len(collected) - Len(items)

C4_Witness ==
    /\ pc = "done"
    /\ ~rerun
    /\ Len(f) >= 1
    /\ Len(items) >= 1

C6_NoBindingsExcluded ==
    \A i \in Processed :
        LET item == collected[i] IN
        (/\ ~HasUncollect(item) /\ PlainFunction(item)
         /\ Declared(item) # {} /\ DOMAIN item.fixtures = {}) =>
            /\ ~evals[i].out.raised
            /\ Logged(item)

\* C6 amended: a predicate with parameters on an item without any fixture
\* binding is dropped and logged without error when no 'appliance-holder'
\* plugin is registered, that is when nothing at all is available.
C6_EmptyContextExcluded ==
    \A i \in Processed :
        LET item == collected[i] IN
        (~HasUncollect(item) /\ EmptyContext(item)) =>
            /\ ~evals[i].out.raised
            /\ ~evals[i].out.invoked
            /\ Logged(item)
            /\ \A k \in 1..Len(new_items) : new_items[k].id # item.id
            /\ pc = "done" => ~InResult(item)

C6_Witness ==
    /\ pc = "done"
    /\ \E i \in 1..Len(collected) :
          /\ ~HasUncollect(collected[i]) /\ EmptyContext(collected[i])
          /\ Logged(collected[i])

\* ---------------------------------------------------------------- claim C7
ReasonOf(marker) ==
    IF "reason" \in DOMAIN marker.kwargs THEN marker.kwargs["reason"]
    ELSE "No reason given"

\* C7: every line of uncollected.log is '<name> - <reason>' for an item of the
\* input, the reason being that of 'uncollect' when the item carries it and
\* that of 'uncollectif' otherwise, 'No reason given' when the marker has
\* none; no line carries None.
C7_LogLineReason ==
    \A j \in 1..Len(f) :
        /\ f[j][3] # "None"
        /\ \E i \in 1..Len(collected) :
              LET item == collected[i] IN
              f[j] = <<item.name, " - ",
                       IF HasUncollect(item) THEN ReasonOf(item.uncollect)
                       ELSE ReasonOf(item.uncollectif)>>

C7_Witness ==
    \E j \in 1..Len(f), i \in 1..Len(collected) :
        /\ f[j][1] = collected[i].name
        /\ HasUncollect(collected[i]) /\ HasCondition(collected[i])
        /\ "reason" \in DOMAIN collected[i].uncollectif.kwargs
        /\ f[j][3] = "No reason given"

\* ---------------------------------------------------------------- claim C8
\* C8: a second pass over the output of a completed pass raises nothing,
\* writes no line, leaves the list as it is and records a count of 0.
C8_SecondPassExcludesNothing ==
    rerun =>
        /\ pc # "raised"
        /\ pc \in {"loop", "done"} => f = <<>>
        /\ pc = "done" =>
              /\ items = collected
              /\ stats["uncollectif"] = 0

C8_Witness ==
    /\ rerun
    /\ pc = "done"
    /\ \E k \in 1..Len(items) : items[k].id # k /\ HasCondition(items[k])

\* ---------------------------------------------------------------- claim C9
\* C9: a logger call that raises never makes the pass end with that error.
C9_LoggerFailureNeverAborts ==
    ~(pc = "raised" /\ error.kind = "logger")

\* --------------------------------------------------------------- claim C10
\* C10: when the marker's argument is not a plain function, uncollectif
\* neither calls it nor reads the fixture values and raises nothing; the item
\* is dropped exactly when the argument is truthy.
C10_FallbackNegatesArgument ==
    \A i \in Processed :
        LET item == collected[i] IN
        (~HasUncollect(item) /\ HasCondition(item) /\ ~PlainFunction(item)) =>
            /\ evals[i].called
            /\ ~evals[i].out.raised
            /\ ~evals[i].out.invoked
            /\ ~evals[i].out.consulted
            /\ evals[i].out.ret = (IF Argument(item).value = "False" THEN "True" ELSE "False")
            /\ Logged(item) <=> Argument(item).value # "False"
            /\ (\E k \in 1..Len(new_items) : new_items[k].id = item.id)
                   <=> Argument(item).value = "False"

C10_Witness ==
    \E i \in Processed :
        /\ ~HasUncollect(collected[i])
        /\ HasCondition(collected[i])
        /\ Argument(collected[i]).kind = "partial"
        /\ Logged(collected[i])

====
